---- MODULE Spec2Model ----
(***************************************************************************)
(* A model of coin_tax: the per-asset portfolio built by add_to_portfolio  *)
(* (src/src/portfolio.rs), the coinbase action vocabulary                  *)
(* (src/src/transaction.rs) and the ingestion loop run (src/src/lib.rs).   *)
(***************************************************************************)
EXTENDS Integers, Sequences, FiniteSets, TLC

VARIABLES
  portfolio,  \* Portfolio = HashMap<String, AssetHistory>: a function on its key set
  applied,    \* the transactions add_to_portfolio returned Ok for, in arrival order
  last,       \* the last call on the portfolio: its operation, arguments and result
  call,       \* the last call of get_action_by_exchange: its arguments and result
  run         \* the state of lib.rs run: the file's lines, the loop position, the result

vars == <<portfolio, applied, last, call, run>>

(***************************************************************************)
(* Bounds and input domains.                                               *)
(***************************************************************************)
\* The number of add_to_portfolio calls in one behaviour.
MaxTx == 3

\* f32 has a 24-bit significand; the model keeps this many bits, so that
\* rounding happens with the small quantities below.
MantissaBits == 2

\* The number of rows after the header in the file run reads.
MaxRows == 2

Assets == {"BTC", "XLM"}

Timestamps == {1, 2, 3}

\* Transaction.quantity, CoinConversion.quantity and Transaction.price are
\* drawn from disjoint sets, so that taking one for another shows.
Quantities == {2}

ConversionQuantities == {3}

Prices == {10}

(***************************************************************************)
(* Option<T>: None is the empty sequence, Some(x) the one-element one.     *)
(***************************************************************************)
None == <<>>

Some(x) == <<x>>

unwrap(o) == o[1]

(***************************************************************************)
(* f32 arithmetic: round-to-nearest, ties-to-even on a significand of      *)
(* MantissaBits bits.  Quantities are integers (a fixed unit); the         *)
(* exponent range is not bounded.                                          *)
(***************************************************************************)
RECURSIVE Pow2(_)
Pow2(n) == IF n = 0 THEN 1 ELSE 2 * Pow2(n - 1)

RECURSIVE FloorLog2(_)
FloorLog2(m) == IF m < 2 THEN 0 ELSE 1 + FloorLog2(m \div 2)

Abs(x) == IF x < 0 THEN 0 - x ELSE x

f32_round(x) ==
  IF x = 0 THEN 0
  ELSE LET m   == Abs(x)
           e   == FloorLog2(m)
       IN  IF e < MantissaBits THEN x
           ELSE LET ulp == Pow2(e - MantissaBits + 1)
                    lo  == (m \div ulp) * ulp
                    hi  == lo + ulp
                    r   == IF m - lo < hi - m THEN lo
                           ELSE IF m - lo > hi - m THEN hi
                           ELSE IF (lo \div ulp) % 2 = 0 THEN lo ELSE hi
                IN  IF x < 0 THEN 0 - r ELSE r

f32_add(a, b) == f32_round(a + b)

f32_sub(a, b) == f32_round(a - b)

(***************************************************************************)
(* transaction.rs: the Transaction record and its ordering.                *)
(***************************************************************************)
TransactionType == {"Buy", "Sell", "Income", "Convert"}

CoinConversion == [name : Assets, quantity : ConversionQuantities]

\* The records create_transaction_from_line builds: conversion_to is Some
\* exactly when the action is Convert.
Transaction ==
  { [timestamp |-> t, action |-> a, asset |-> s, quantity |-> q, price |-> p,
     conversion_to |-> None] :
       t \in Timestamps, a \in {"Buy", "Sell", "Income"}, s \in Assets,
       q \in Quantities, p \in Prices }
  \cup
  { [timestamp |-> t, action |-> "Convert", asset |-> s, quantity |-> q,
     price |-> p, conversion_to |-> Some(c)] :
       t \in Timestamps, s \in Assets, q \in Quantities, p \in Prices,
       c \in CoinConversion }

\* Records the struct admits and the data model forbids: a Convert with no
\* conversion_to.
MalformedTransaction ==
  { [timestamp |-> t, action |-> "Convert", asset |-> s, quantity |-> q,
     price |-> p, conversion_to |-> None] :
       t \in Timestamps, s \in Assets, q \in Quantities, p \in Prices }

\* impl Ord for Transaction: the timestamps alone are compared.
cmp(a, b) ==
  IF a.timestamp < b.timestamp THEN "Less"
  ELSE IF a.timestamp > b.timestamp THEN "Greater"
  ELSE "Equal"

(***************************************************************************)
(* portfolio.rs: AssetHistory.                                             *)
(***************************************************************************)
\* slice::binary_search on a sorted history: Ok(i) for any i whose element
\* compares Equal, else Err(i) with i the place that keeps the order.  The
\* value is the set of indices (counted from 1) the call may return.
binary_search(history, new_transaction) ==
  LET found == { i \in 1..Len(history) : cmp(history[i], new_transaction) = "Equal" }
      below == { i \in 1..Len(history) : cmp(history[i], new_transaction) = "Less" }
  IN  IF found # {} THEN found ELSE { Cardinality(below) + 1 }

\* Vec::insert(pos, x): x is the element at pos, the later ones move up.
insert(history, pos, x) ==
  [ i \in 1..(Len(history) + 1) |->
      IF i < pos THEN history[i]
      ELSE IF i = pos THEN x
      ELSE history[i - 1] ]

\* A push that ignores the search and appends.
push_into_history_at_end(history, new_transaction, pos) ==
  Append(history, new_transaction)

\* The history with new_transaction inserted at pos, a result of the search.
push_into_history(history, new_transaction, pos) ==
  insert(history, pos, new_transaction)

\* A Convert whose source side subtracts the destination-side amount.
new_quantity_source_by_conversion(self, new_transaction) ==
  CASE new_transaction.action \in {"Buy", "Income"} ->
         f32_add(self.quantity, new_transaction.quantity)
    [] new_transaction.action = "Sell" ->
         f32_sub(self.quantity, new_transaction.quantity)
    [] new_transaction.action = "Convert" ->
         LET conversion == unwrap(new_transaction.conversion_to)
         IN  IF self.name = conversion.name
             THEN f32_add(self.quantity, conversion.quantity)
             ELSE f32_sub(self.quantity, conversion.quantity)

\* A Sell that credits the account.
new_quantity_sell_credits(self, new_transaction) ==
  CASE new_transaction.action \in {"Buy", "Sell", "Income"} ->
         f32_add(self.quantity, new_transaction.quantity)
    [] new_transaction.action = "Convert" ->
         LET conversion == unwrap(new_transaction.conversion_to)
         IN  IF self.name = conversion.name
             THEN f32_add(self.quantity, conversion.quantity)
             ELSE f32_sub(self.quantity, new_transaction.quantity)

\* The quantity an account holds after new_transaction.
new_quantity(self, new_transaction) ==
  CASE new_transaction.action = "Buy" ->
         f32_add(self.quantity, new_transaction.quantity)
    [] new_transaction.action = "Sell" ->
         f32_sub(self.quantity, new_transaction.quantity)
    [] new_transaction.action = "Income" ->
         f32_add(self.quantity, new_transaction.quantity)
    [] new_transaction.action = "Convert" ->
         LET conversion == unwrap(new_transaction.conversion_to)
         IN  IF self.name = conversion.name
             THEN f32_add(self.quantity, conversion.quantity)
             ELSE f32_sub(self.quantity, new_transaction.quantity)

add_transaction_to_asset(self, new_transaction, pos) ==
  [ name     |-> self.name,
    history  |-> push_into_history(self.history, new_transaction, pos),
    quantity |-> new_quantity(self, new_transaction) ]

(***************************************************************************)
(* portfolio.rs: the portfolio.                                            *)
(***************************************************************************)
EmptyPortfolio == [ k \in {} |-> 0 ]

contains_key(p, asset) == asset \in DOMAIN p

\* HashMap::insert: the entry for key is set, the others are kept.
hash_insert(p, key, value) ==
  [ k \in DOMAIN p \cup {key} |-> IF k = key THEN value ELSE p[k] ]

\* An insert with no contains_key test: an existing account is replaced.
add_new_asset_to_portfolio_always(p, asset) ==
  hash_insert(p, asset, [name |-> asset, history |-> <<>>, quantity |-> 0])

\* An account created without its name.
add_new_asset_to_portfolio_unnamed(p, asset) ==
  IF ~contains_key(p, asset)
  THEN hash_insert(p, asset, [name |-> "", history |-> <<>>, quantity |-> 0])
  ELSE p

\* The contains_key test inverted: an unseen asset gets no account.
add_new_asset_to_portfolio_inverted(p, asset) ==
  IF contains_key(p, asset)
  THEN hash_insert(p, asset, [name |-> asset, history |-> <<>>, quantity |-> 0])
  ELSE p

add_new_asset_to_portfolio(p, asset) ==
  IF ~contains_key(p, asset)
  THEN hash_insert(p, asset, [name |-> asset, history |-> <<>>, quantity |-> 0])
  ELSE p

NoTransaction ==
  [timestamp |-> 0, action |-> "None", asset |-> "", quantity |-> 0, price |-> 0,
   conversion_to |-> None]

\* The call returns: Ok(p) hands the portfolio back to the caller.
Return(op, transaction, result, p) ==
  /\ portfolio' = p
  /\ applied' = IF result = "Ok" /\ op = "add_to_portfolio"
                THEN Append(applied, transaction) ELSE applied
  /\ last' = [op |-> op, tx |-> transaction, asset |-> transaction.asset,
              result |-> result]

\* Lines 87-91: the account of transaction.asset is looked up and updated.
UpdateAsset(p, transaction) ==
  IF ~contains_key(p, transaction.asset)
  THEN Return("add_to_portfolio", transaction, "HistoryAccessError", p)
  ELSE \E pos \in binary_search(p[transaction.asset].history, transaction) :
         Return("add_to_portfolio", transaction, "Ok",
                [p EXCEPT ![transaction.asset] =
                   add_transaction_to_asset(@, transaction, pos)])

\* add_to_portfolio(portfolio, transaction).  unwrap of a None conversion_to
\* panics; the portfolio was moved into the call, so after an Err or a panic
\* no caller holds one, and `last` says so.
add_to_portfolio(transaction) ==
  LET p1 == add_new_asset_to_portfolio(portfolio, transaction.asset)
  IN  IF transaction.action = "Convert"
      THEN IF transaction.conversion_to = None
           THEN Return("add_to_portfolio", transaction, "panic", p1)
           ELSE LET conversion == unwrap(transaction.conversion_to)
                    p2 == add_new_asset_to_portfolio(p1, conversion.name)
                IN  IF ~contains_key(p2, conversion.name)
                    THEN Return("add_to_portfolio", transaction,
                                "HistoryAccessError", p2)
                    ELSE \E pos \in binary_search(p2[conversion.name].history,
                                                  transaction) :
                           UpdateAsset(
                             [p2 EXCEPT ![conversion.name] =
                                add_transaction_to_asset(@, transaction, pos)],
                             transaction)
      ELSE UpdateAsset(p1, transaction)

\* The caller still holds a portfolio: no call has failed or panicked.
Live == last.result = "Ok"

AddToPortfolio ==
  /\ Live
  /\ Len(applied) < MaxTx
  /\ \E transaction \in Transaction : add_to_portfolio(transaction)
  /\ UNCHANGED <<call, run>>

AddMalformedToPortfolio ==
  /\ Live
  /\ Len(applied) < MaxTx
  /\ \E transaction \in MalformedTransaction : add_to_portfolio(transaction)
  /\ UNCHANGED <<call, run>>

\* add_new_asset_to_portfolio called on its own, as its test does.
AddNewAsset ==
  /\ Live
  /\ \E asset \in Assets :
       /\ portfolio' = add_new_asset_to_portfolio(portfolio, asset)
       /\ last' = [op |-> "add_new_asset_to_portfolio", tx |-> NoTransaction,
                   asset |-> asset, result |-> "Ok"]
  /\ UNCHANGED <<applied, call, run>>

(***************************************************************************)
(* Result<T, E>, and a panic (the thread unwinds, no value is returned).   *)
(***************************************************************************)
Ok(v) == [tag |-> "Ok", value |-> v]

Err(e) == [tag |-> "Err", value |-> e]

Panic == [tag |-> "panic", value |-> "index out of bounds"]

NotCalled == [tag |-> "none", value |-> ""]

(***************************************************************************)
(* transaction.rs: the action vocabulary.  line_data is the sequence of    *)
(* the fields of a line; Rust's line_data[i] is line_data[i + 1] here.     *)
(***************************************************************************)
ActionKeywords ==
  {"Buy", "Sell", "Rewards Income", "Coinbase Earn", "Convert", "Unknown",
   "buy", "SELL", "Income", "Rewards", "Coinbase", "Earn", "convert", "Send",
   "Receive", ""}

Exchanges == {"coinbase", "coinfake", "Coinbase", ""}

LineData ==
  {<<>>, <<"2018-01-23T03:40:11Z">>}
  \cup { <<"2018-01-23T03:40:11Z", k>> : k \in ActionKeywords }
  \cup { <<"2018-01-23T03:40:11Z", k, "BTC">> : k \in ActionKeywords }

\* The vocabulary without its "Coinbase Earn" arm.
get_coinbase_action_no_earn(raw_action) ==
  CASE raw_action = "Buy" -> Ok("Buy")
    [] raw_action = "Sell" -> Ok("Sell")
    [] raw_action = "Rewards Income" -> Ok("Income")
    [] raw_action = "Convert" -> Ok("Convert")
    [] OTHER -> Err("UnknownAction")

get_coinbase_action(raw_action) ==
  CASE raw_action = "Buy" -> Ok("Buy")
    [] raw_action = "Sell" -> Ok("Sell")
    [] raw_action = "Rewards Income" -> Ok("Income")
    [] raw_action = "Coinbase Earn" -> Ok("Income")
    [] raw_action = "Convert" -> Ok("Convert")
    [] OTHER -> Err("UnknownAction")

\* Ok(f(..)?) returns f's Err as it is and wraps its value in Ok again.
get_action_by_exchange(line_data, exchange) ==
  IF exchange = "coinbase"
  THEN IF Len(line_data) < 2 THEN Panic
       ELSE LET r == get_coinbase_action(line_data[2])
            IN  IF r.tag = "Err" THEN r ELSE Ok(r.value)
  ELSE Err("UnsupportedExchange")

GetActionByExchange ==
  /\ \E line_data \in LineData, exchange \in Exchanges :
       call' = [line_data |-> line_data, exchange |-> exchange,
                result |-> get_action_by_exchange(line_data, exchange)]
  /\ UNCHANGED <<portfolio, applied, last, run>>

(***************************************************************************)
(* lib.rs: run.  A line of the file is the Result the iterator yields: Ok  *)
(* with the text, given as the sequence of its comma-separated fields      *)
(* (what split_csv_line returns, never empty), or an io::Error.            *)
(***************************************************************************)
TimeFields == {"2018-01-23T03:40:11Z", "2018-01-22T03:40:11Z", "yesterday"}

RowActionFields == {"Buy", "Send"}

QuantityFields == {"2", "two"}

PriceFields == {"10.00", "ten"}

FullRows ==
  { <<t, a, "BTC", q, "10881.58", "10.00", p>> :
      t \in TimeFields, a \in RowActionFields, q \in QuantityFields,
      p \in PriceFields }

\* Rows with fewer than seven fields.
ShortRows ==
  { SubSeq(<<t, "Buy", "BTC", "2", "10881.58", "10.00">>, 1, n) :
      t \in {"2018-01-23T03:40:11Z", "yesterday"}, n \in 1..6 }

ReadError == [ok |-> FALSE, text |-> <<>>]

Lines == { [ok |-> TRUE, text |-> r] : r \in FullRows \cup ShortRows } \cup {ReadError}

HeaderLines ==
  { [ok |-> TRUE, text |-> <<"Timestamp", "Transaction Type", "Asset">>], ReadError }

RECURSIVE SeqsUpTo(_, _)
SeqsUpTo(S, n) ==
  IF n = 0 THEN {<<>>}
  ELSE LET shorter == SeqsUpTo(S, n - 1)
       IN  shorter \cup { Append(r, x) : r \in shorter, x \in S }

\* The files: empty, or a header line and up to MaxRows rows.
Files == {<<>>} \cup { <<h>> \o rows : h \in HeaderLines, rows \in SeqsUpTo(Lines, MaxRows) }

\* DateTime::parse_from_rfc3339(s)?.timestamp_millis(): the instants are
\* numbered in their order.
parse_from_rfc3339(s) ==
  CASE s = "2018-01-22T03:40:11Z" -> Ok(1)
    [] s = "2018-01-23T03:40:11Z" -> Ok(2)
    [] OTHER -> Err("ParseError")

\* f64::from_str.
f64_from_str(s) ==
  CASE s = "2" -> Ok(2)
    [] s = "10.00" -> Ok(10)
    [] OTHER -> Err("ParseFloatError")

lib_get_coinbase_action(raw_action) ==
  CASE raw_action = "Buy" -> Ok("Buy")
    [] raw_action = "Sell" -> Ok("Sell")
    [] raw_action = "Rewards Income" -> Ok("Income")
    [] raw_action = "Coinbase Earn" -> Ok("Income")
    [] raw_action = "Convert" -> Ok("Convert")
    [] OTHER -> Err("Unknown Action!")

lib_get_action_by_exchange(raw_action, exchange) ==
  IF exchange = "coinbase"
  THEN LET r == lib_get_coinbase_action(raw_action)
       IN  IF r.tag = "Err" THEN r ELSE Ok(r.value)
  ELSE Err("Exchange not yet supported!")

\* lib.rs create_transaction_from_line: the fields are read in the order
\* 0, 1, 2, 3, 6; an index past the end panics, a field that does not parse
\* returns the Err.
lib_create_transaction_from_line(split_line) ==
  LET timestamp == parse_from_rfc3339(split_line[1])
  IN  IF timestamp.tag = "Err" THEN timestamp
      ELSE IF Len(split_line) < 2 THEN Panic
      ELSE LET action == lib_get_action_by_exchange(split_line[2], "coinbase")
           IN  IF action.tag = "Err" THEN action
               ELSE IF Len(split_line) < 3 THEN Panic
               ELSE IF Len(split_line) < 4 THEN Panic
               ELSE LET quantity == f64_from_str(split_line[4])
                    IN  IF quantity.tag = "Err" THEN quantity
                        ELSE IF Len(split_line) < 7 THEN Panic
                        ELSE LET price == f64_from_str(split_line[7])
                             IN  IF price.tag = "Err" THEN price
                                 ELSE Ok([timestamp |-> timestamp.value,
                                          action    |-> action.value,
                                          asset     |-> split_line[3],
                                          quantity  |-> quantity.value,
                                          price     |-> price.value])

\* Vec::sort_by(|a, b| a.timestamp.cmp(&b.timestamp)): a stable sort.
RECURSIVE sort_by_timestamp(_)
sort_by_timestamp(v) ==
  IF v = <<>> THEN <<>>
  ELSE LET sorted == sort_by_timestamp(SubSeq(v, 1, Len(v) - 1))
           x      == v[Len(v)]
           n      == Cardinality({ i \in 1..Len(sorted) :
                                     sorted[i].timestamp <= x.timestamp })
       IN  SubSeq(sorted, 1, n) \o <<x>> \o SubSeq(sorted, n + 1, Len(sorted))

\* run has not been called: File::open is ahead.
RunStart(file, exists) ==
  [lines |-> file, exists |-> exists, status |-> "start", index |-> 0,
   transactions |-> <<>>, coins |-> {}, printed |-> <<>>]

NoRun == RunStart(<<>>, FALSE)

\* let lines = read_lines(filename)?
RunReadLines ==
  /\ run.status = "start"
  /\ run' = [run EXCEPT !.status = IF run.exists THEN "loop" ELSE "Err"]
  /\ UNCHANGED <<portfolio, applied, last, call>>

\* One iteration of the for loop, on line number run.index (from 0).  An
\* iteration that returns or panics ends the loop with the line consumed.
RunLine ==
  /\ run.status = "loop"
  /\ run.index < Len(run.lines)
  /\ LET index == run.index
         line  == run.lines[index + 1]
         next  == [run EXCEPT !.index = index + 1]
     IN  run' =
           IF index = 0 THEN next
           ELSE IF line.ok
           THEN LET transaction == lib_create_transaction_from_line(line.text)
                IN  CASE transaction.tag = "Err" ->
                           [next EXCEPT !.status = "Err"]
                      [] transaction.tag = "panic" ->
                           [next EXCEPT !.status = "panic"]
                      [] transaction.tag = "Ok" ->
                           [next EXCEPT
                              !.coins = @ \cup {transaction.value.asset},
                              !.transactions = Append(@, transaction.value)]
           ELSE next
  /\ UNCHANGED <<portfolio, applied, last, call>>

\* After the loop: the sort, the two println! and Ok(()).
RunFinish ==
  /\ run.status = "loop"
  /\ run.index = Len(run.lines)
  /\ run' = [run EXCEPT
               !.transactions = sort_by_timestamp(@),
               !.printed = <<sort_by_timestamp(run.transactions), run.coins>>,
               !.status = "Ok"]
  /\ UNCHANGED <<portfolio, applied, last, call>>

(***************************************************************************)
(* The specifications.                                                     *)
(***************************************************************************)
NoCall == [line_data |-> <<>>, exchange |-> "", result |-> NotCalled]

Init ==
  /\ portfolio = EmptyPortfolio
  /\ applied = <<>>
  /\ last = [op |-> "new", tx |-> NoTransaction, asset |-> "", result |-> "Ok"]
  /\ call = NoCall
  /\ run = NoRun

Next == AddToPortfolio \/ AddMalformedToPortfolio

\* The portfolio under add_to_portfolio.
Spec == Init /\ [][Next]_vars

NextAsset == AddToPortfolio \/ AddMalformedToPortfolio \/ AddNewAsset

\* The portfolio under add_to_portfolio and add_new_asset_to_portfolio.
SpecAsset == Init /\ [][NextAsset]_vars

\* get_action_by_exchange on any line and exchange.
SpecAction == Init /\ [][GetActionByExchange]_vars

InitRun ==
  /\ portfolio = EmptyPortfolio
  /\ applied = <<>>
  /\ last = [op |-> "new", tx |-> NoTransaction, asset |-> "", result |-> "Ok"]
  /\ call = NoCall
  /\ \E file \in Files, exists \in BOOLEAN :
       /\ ~exists => file = <<>>
       /\ run = RunStart(file, exists)

NextRun == RunReadLines \/ RunLine \/ RunFinish

\* run on any file.
SpecRun == InitRun /\ [][NextRun]_vars

(***************************************************************************)
(* portfolio.rs with exact arithmetic: add_to_portfolio as a function of   *)
(* the portfolio and the transaction, the quantities added and subtracted  *)
(* without rounding.  The value is the set of portfolios an Ok may hand    *)
(* back, one for each index the searches may return.                       *)
(***************************************************************************)
new_quantity_exact(self, new_transaction) ==
  CASE new_transaction.action = "Buy" ->
         self.quantity + new_transaction.quantity
    [] new_transaction.action = "Sell" ->
         self.quantity - new_transaction.quantity
    [] new_transaction.action = "Income" ->
         self.quantity + new_transaction.quantity
    [] new_transaction.action = "Convert" ->
         LET conversion == unwrap(new_transaction.conversion_to)
         IN  IF self.name = conversion.name
             THEN self.quantity + conversion.quantity
             ELSE self.quantity - new_transaction.quantity

add_transaction_to_asset_exact(self, new_transaction, pos) ==
  [ name     |-> self.name,
    history  |-> push_into_history(self.history, new_transaction, pos),
    quantity |-> new_quantity_exact(self, new_transaction) ]

\* Lines 87-91.
update_asset_exact(p, transaction) ==
  IF ~contains_key(p, transaction.asset) THEN {}
  ELSE { [p EXCEPT ![transaction.asset] =
            add_transaction_to_asset_exact(@, transaction, pos)] :
           pos \in binary_search(p[transaction.asset].history, transaction) }

add_to_portfolio_exact(p, transaction) ==
  LET p1 == add_new_asset_to_portfolio(p, transaction.asset)
  IN  IF transaction.action = "Convert"
      THEN IF transaction.conversion_to = None THEN {}
           ELSE LET conversion == unwrap(transaction.conversion_to)
                    p2 == add_new_asset_to_portfolio(p1, conversion.name)
                IN  IF ~contains_key(p2, conversion.name) THEN {}
                    ELSE UNION {
                           update_asset_exact(
                             [p2 EXCEPT ![conversion.name] =
                                add_transaction_to_asset_exact(@, transaction, pos)],
                             transaction) :
                           pos \in binary_search(p2[conversion.name].history,
                                                 transaction) }
      ELSE update_asset_exact(p1, transaction)

\* The portfolios that the first n transactions of log, applied in log
\* order to the empty portfolio, may give.
RECURSIVE portfolios_exact(_, _)
portfolios_exact(log, n) ==
  IF n = 0 THEN {EmptyPortfolio}
  ELSE UNION { add_to_portfolio_exact(p, log[n]) : p \in portfolios_exact(log, n - 1) }

(***************************************************************************)
(* What the claims are stated with.                                        *)
(***************************************************************************)
\* An account's quantity and history, those of a fresh account when the
\* portfolio has none under that key.
QuantityOf(p, asset) == IF asset \in DOMAIN p THEN p[asset].quantity ELSE 0

HistoryOf(p, asset) == IF asset \in DOMAIN p THEN p[asset].history ELSE <<>>

IsConvert(tx) == tx.action = "Convert" /\ tx.conversion_to # None

IsSelfConvert(tx) == IsConvert(tx) /\ unwrap(tx.conversion_to).name = tx.asset

IsDistinctConvert(tx) == IsConvert(tx) /\ unwrap(tx.conversion_to).name # tx.asset

\* h2 is h with the one record tx added, the records of h kept in their order.
AddedOnce(h, h2, tx) ==
  /\ Len(h2) = Len(h) + 1
  /\ \E i \in 1..Len(h2) :
       /\ h2[i] = tx
       /\ \A j \in 1..Len(h2) :
            (j < i => h2[j] = h[j]) /\ (j > i => h2[j] = h[j - 1])

\* The effect table, one row per case: the quantity of account `asset`
\* after transaction tx, q being the quantity before.
TableEffect(q, tx, asset) ==
  CASE tx.action = "Buy" /\ tx.asset = asset -> f32_add(q, tx.quantity)
    [] tx.action = "Sell" /\ tx.asset = asset -> f32_sub(q, tx.quantity)
    [] tx.action = "Income" /\ tx.asset = asset -> f32_add(q, tx.quantity)
    [] IsConvert(tx) /\ unwrap(tx.conversion_to).name = asset ->
         f32_add(q, unwrap(tx.conversion_to).quantity)
    [] IsDistinctConvert(tx) /\ tx.asset = asset -> f32_sub(q, tx.quantity)
    [] OTHER -> q

\* The effects of the first n transactions of log on `asset`, in log order.
RECURSIVE EffectSum(_, _, _)
EffectSum(log, n, asset) ==
  IF n = 0 THEN 0 ELSE TableEffect(EffectSum(log, n - 1, asset), log[n], asset)

\* The asset ids the transactions of log name, as asset or as destination.
Referenced(log) ==
  { log[i].asset : i \in 1..Len(log) }
  \cup { unwrap(log[i].conversion_to).name :
           i \in { j \in 1..Len(log) : IsConvert(log[j]) } }

\* The step was an add_to_portfolio call that returned Ok.
Added == last'.op = "add_to_portfolio" /\ last'.result = "Ok"

(***************************************************************************)
(* C1: a Convert whose asset is its own destination changes that account's *)
(* quantity by +conversion_to.quantity, once, and subtracts nothing.       *)
(***************************************************************************)
C1_SelfConvertCreditsOnce ==
  [][ (Added /\ IsSelfConvert(last'.tx)) =>
        portfolio'[last'.tx.asset].quantity =
          f32_add(QuantityOf(portfolio, last'.tx.asset),
                  unwrap(last'.tx.conversion_to).quantity) ]_vars

(***************************************************************************)
(* C2: after any sequence of successful calls from the empty portfolio,    *)
(* every account's quantity is the sum, in arrival order, of the effect    *)
(* table's signed effects over the transactions applied.                   *)
(***************************************************************************)
C2_QuantityIsEffectSum ==
  Live => \A asset \in DOMAIN portfolio :
            portfolio[asset].quantity = EffectSum(applied, Len(applied), asset)

(***************************************************************************)
(* C3: in every reachable portfolio, every account's history is in         *)
(* non-decreasing timestamp order.                                         *)
(***************************************************************************)
C3_HistorySorted ==
  \A asset \in DOMAIN portfolio :
    \A i \in 1..(Len(portfolio[asset].history) - 1) :
      portfolio[asset].history[i].timestamp
        <= portfolio[asset].history[i + 1].timestamp

\* A history of three records or more holding two of one timestamp, built
\* from transactions that arrived out of timestamp order.
C3_Witness ==
  /\ Live
  /\ \A i \in 1..Len(applied) : ~IsSelfConvert(applied[i])
  /\ \E asset \in DOMAIN portfolio :
       LET h == portfolio[asset].history
       IN  /\ Len(h) >= 3
           /\ \E i \in 1..(Len(h) - 1) : h[i].timestamp = h[i + 1].timestamp
           /\ \E i, j \in 1..Len(applied) :
                /\ i < j
                /\ applied[i].timestamp > applied[j].timestamp
                /\ asset \in Referenced(<<applied[i]>>)
                /\ asset \in Referenced(<<applied[j]>>)

(***************************************************************************)
(* C4: a Convert whose asset differs from its destination adds             *)
(* conversion_to.quantity to the destination's quantity, subtracts         *)
(* transaction.quantity from the source's, and adds the record to both     *)
(* histories, each growing by one.                                         *)
(***************************************************************************)
C4_ConvertUpdatesBothAccounts ==
  [][ (Added /\ IsDistinctConvert(last'.tx)) =>
        LET tx   == last'.tx
            dest == unwrap(tx.conversion_to).name
        IN  /\ portfolio'[dest].quantity =
                 f32_add(QuantityOf(portfolio, dest),
                         unwrap(tx.conversion_to).quantity)
            /\ portfolio'[tx.asset].quantity =
                 f32_sub(QuantityOf(portfolio, tx.asset), tx.quantity)
            /\ AddedOnce(HistoryOf(portfolio, dest), portfolio'[dest].history, tx)
            /\ AddedOnce(HistoryOf(portfolio, tx.asset),
                         portfolio'[tx.asset].history, tx) ]_vars

\* A Convert between two accounts that both held records before it.
C4_Witness ==
  /\ last.op = "add_to_portfolio"
  /\ last.result = "Ok"
  /\ IsDistinctConvert(last.tx)
  /\ \A i \in 1..Len(applied) : ~IsSelfConvert(applied[i])
  /\ Len(portfolio[last.tx.asset].history) >= 2
  /\ Len(portfolio[unwrap(last.tx.conversion_to).name].history) >= 2

(***************************************************************************)
(* C5: add_new_asset_to_portfolio adds, for an asset id not in the         *)
(* portfolio, one account of that name with quantity 0 and an empty        *)
(* history, and keeps the other entries; for an asset id in the portfolio  *)
(* it returns the portfolio as it was.  A second call changes nothing.     *)
(***************************************************************************)
C5_AddNewAssetIdempotent ==
  [][ last'.op = "add_new_asset_to_portfolio" =>
        LET asset == last'.asset
        IN  /\ asset \in DOMAIN portfolio => portfolio' = portfolio
            /\ asset \notin DOMAIN portfolio =>
                 /\ DOMAIN portfolio' = DOMAIN portfolio \cup {asset}
                 /\ portfolio'[asset] =
                      [name |-> asset, history |-> <<>>, quantity |-> 0]
                 /\ \A other \in DOMAIN portfolio :
                      portfolio'[other] = portfolio[other]
            /\ add_new_asset_to_portfolio(portfolio', asset) = portfolio' ]_vars

\* The call was made for an account that holds records, in a portfolio
\* with another account that such a call created.
C5_Witness ==
  /\ last.op = "add_new_asset_to_portfolio"
  /\ last.asset \in DOMAIN portfolio
  /\ portfolio[last.asset].history # <<>>
  /\ portfolio[last.asset].quantity # 0
  /\ \E other \in DOMAIN portfolio :
       portfolio[other] = [name |-> other, history |-> <<>>, quantity |-> 0]

(***************************************************************************)
(* C6: a Buy, Sell or Income changes the account of transaction.asset      *)
(* alone: its quantity by the action's effect, its history by the one      *)
(* record; the other accounts are as they were and none is created.        *)
(***************************************************************************)
C6_SimpleActionsTouchOneAccount ==
  [][ (Added /\ last'.tx.action \in {"Buy", "Sell", "Income"}) =>
        LET tx == last'.tx
            q  == QuantityOf(portfolio, tx.asset)
        IN  /\ DOMAIN portfolio' = DOMAIN portfolio \cup {tx.asset}
            /\ \A other \in DOMAIN portfolio \ {tx.asset} :
                 portfolio'[other] = portfolio[other]
            /\ portfolio'[tx.asset].quantity =
                 IF tx.action = "Sell" THEN f32_sub(q, tx.quantity)
                 ELSE f32_add(q, tx.quantity)
            /\ AddedOnce(HistoryOf(portfolio, tx.asset),
                         portfolio'[tx.asset].history, tx) ]_vars

\* A Sell on one account while another account holds records.
C6_Witness ==
  /\ last.op = "add_to_portfolio"
  /\ last.result = "Ok"
  /\ last.tx.action = "Sell"
  /\ Len(portfolio[last.tx.asset].history) >= 2
  /\ \E other \in DOMAIN portfolio \ {last.tx.asset} :
       portfolio[other].history # <<>>

(***************************************************************************)
(* C7: after any sequence of successful calls from the empty portfolio,    *)
(* the key set is the set of asset ids referenced so far, as asset or as   *)
(* destination; each entry's name is its key; no call removes an entry.    *)
(***************************************************************************)
C7_KeysAreReferenced ==
  Live => /\ DOMAIN portfolio = Referenced(applied)
          /\ \A asset \in DOMAIN portfolio : portfolio[asset].name = asset

\* C7: the key set is the referenced set in every state, and no step
\* removes a key.
C7_KeySet ==
  /\ []C7_KeysAreReferenced
  /\ [][DOMAIN portfolio \subseteq DOMAIN portfolio']_vars

\* Both assets are keys, one of them named only as a destination.
C7_Witness ==
  /\ Live
  /\ DOMAIN portfolio = Assets
  /\ \E asset \in Assets : \A i \in 1..Len(applied) : applied[i].asset # asset

(***************************************************************************)
(* C8: for a transaction of the data model (conversion_to set when the     *)
(* action is Convert), add_to_portfolio returns Ok from every portfolio:   *)
(* HistoryAccessError is not returned.                                     *)
(***************************************************************************)
C8_NoHistoryAccessError ==
  (last.op = "add_to_portfolio" /\ last.tx \in Transaction) => last.result = "Ok"

\* A Convert that returned Ok and whose destination account it created.
C8_Witness ==
  /\ last.op = "add_to_portfolio"
  /\ last.result = "Ok"
  /\ IsDistinctConvert(last.tx)
  /\ Len(applied) >= 2
  /\ Len(portfolio[unwrap(last.tx.conversion_to).name].history) = 1

\* The line cannot be read, or no transaction is made from it.
RowFails(line) ==
  ~line.ok \/ lib_create_transaction_from_line(line.text).tag # "Ok"

(***************************************************************************)
(* C9: in run, an error on a row after the header ends the run at that row *)
(* with an error: the row is not skipped, no later row is processed and    *)
(* nothing is printed.  A panic is counted as ending the run.              *)
(***************************************************************************)
C9_RowErrorEndsRun ==
  \A i \in 2..run.index :
    RowFails(run.lines[i]) =>
      /\ run.status \in {"Err", "panic"}
      /\ run.index = i
      /\ run.printed = <<>>

(***************************************************************************)
(* C10: with exchange "coinbase", get_action_by_exchange maps the keyword  *)
(* "Buy" to Buy, "Sell" to Sell, "Rewards Income" and "Coinbase Earn" to   *)
(* Income, "Convert" to Convert and any other keyword to UnknownAction;    *)
(* with any other exchange it returns UnsupportedExchange.                 *)
(***************************************************************************)
C10_ActionVocabulary ==
  call.result # NotCalled =>
    /\ call.exchange # "coinbase" => call.result = Err("UnsupportedExchange")
    /\ (call.exchange = "coinbase" /\ Len(call.line_data) >= 2) =>
         LET keyword == call.line_data[2]
         IN  /\ keyword = "Buy" => call.result = Ok("Buy")
             /\ keyword = "Sell" => call.result = Ok("Sell")
             /\ keyword \in {"Rewards Income", "Coinbase Earn"} =>
                  call.result = Ok("Income")
             /\ keyword = "Convert" => call.result = Ok("Convert")
             /\ keyword \notin {"Buy", "Sell", "Rewards Income", "Coinbase Earn",
                                "Convert"} =>
                  call.result = Err("UnknownAction")

\* The call of the test for "Coinbase Earn".
C10_Witness ==
  /\ call.exchange = "coinbase"
  /\ Len(call.line_data) >= 2
  /\ call.line_data[2] = "Coinbase Earn"
  /\ call.result = Ok("Income")

\* The number of places of seq that hold x.
Count(seq, x) == Cardinality({ i \in 1..Len(seq) : seq[i] = x })

\* a is b with some records left out: the records of a are in b, in a's order.
RECURSIVE IsSubsequence(_, _)
IsSubsequence(a, b) ==
  IF a = <<>> THEN TRUE
  ELSE IF b = <<>> THEN FALSE
  ELSE IF a[1] = b[1] THEN IsSubsequence(Tail(a), Tail(b))
  ELSE IsSubsequence(a, Tail(b))

\* Every account's history holds each transaction as many times as it was
\* applied with that account as its asset or its destination.
C11_OneRecordPerNaming ==
  Live => \A asset \in DOMAIN portfolio : \A tx \in Transaction :
            Count(portfolio[asset].history, tx) =
              Cardinality({ i \in 1..Len(applied) :
                              applied[i] = tx /\ asset \in Referenced(<<tx>>) })

(***************************************************************************)
(* C11: after any sequence of successful calls from the empty portfolio,   *)
(* each account's history holds one record for every applied transaction   *)
(* that names the account as asset or as destination, and no other: a      *)
(* Convert to its own asset is recorded once; and an insertion keeps the   *)
(* records the history held.                                               *)
(***************************************************************************)
C11_HistoryHoldsAppliedOnce ==
  /\ []C11_OneRecordPerNaming
  /\ [][ Added => \A asset \in DOMAIN portfolio :
                    IsSubsequence(portfolio[asset].history,
                                  portfolio'[asset].history) ]_vars

\* No two transactions of log have one timestamp.
DistinctTimestamps(log) ==
  \A i, j \in 1..Len(log) : i # j => log[i].timestamp # log[j].timestamp

\* The transactions of log in the order f, a permutation of its indices.
Reordered(log, f) == [ i \in 1..Len(log) |-> log[f[i]] ]

(***************************************************************************)
(* C12: transactions with pairwise distinct timestamps, applied to the     *)
(* empty portfolio in any two arrival orders, give the same portfolio:     *)
(* the same keys, the same quantity per account with exact arithmetic,     *)
(* the same history per account.  The portfolio the calls built has those  *)
(* keys and histories.                                                     *)
(***************************************************************************)
C12_ArrivalOrderIrrelevant ==
  (Live /\ DistinctTimestamps(applied)) =>
    LET here == portfolios_exact(applied, Len(applied))
    IN  /\ Cardinality(here) = 1
        /\ \A f \in Permutations(1..Len(applied)) :
             portfolios_exact(Reordered(applied, f), Len(applied)) = here
        /\ \A p \in here :
             /\ DOMAIN p = DOMAIN portfolio
             /\ \A asset \in DOMAIN p :
                  p[asset].history = portfolio[asset].history

\* Three transactions of distinct timestamps that arrived latest first, a
\* Convert between two accounts among them, with an account whose f32
\* quantity is not the exact one.
C12_Witness ==
  /\ Live
  /\ Len(applied) >= 3
  /\ DistinctTimestamps(applied)
  /\ \A i \in 1..(Len(applied) - 1) :
       applied[i].timestamp > applied[i + 1].timestamp
  /\ \E i \in 1..Len(applied) : IsDistinctConvert(applied[i])
  /\ \E p \in portfolios_exact(applied, Len(applied)) :
       \E asset \in DOMAIN portfolio :
         p[asset].quantity # portfolio[asset].quantity

====
